---- MODULE Spec2Model ----
(***************************************************************************)
(* Model of src/esl_monitor.py: the ESL registration monitor.  One run of  *)
(* check_for_changes is a process started by an external scheduler; runs    *)
(* do not overlap.  The only state that survives a run is the state file    *)
(* page_state.json.                                                         *)
(*                                                                          *)
(* Text is modelled as a sequence of chunks (opaque strings); "." is the    *)
(* period character and " " a blank.  Lower-casing and substring tests on   *)
(* chunks are tables over the chunks the model uses.                        *)
(***************************************************************************)
EXTENDS Naturals, Sequences, FiniteSets

\* ------------------------------------------------------------------ bounds

\* A fetched page holds at most MaxItems sentences and anchors in total.
MaxItems == 2

\* A page given to the extractor alone holds at most MaxExtract sentences and
\* anchors in total.
MaxExtract == 3

\* ------------------------------------------------------------- page universe

None == [t |-> "None"]

Origin == "https://www.santaclaraadulted.org"

\* Sentences a page may show: with one and with two keywords of the keyword
\* list.  In the list the first keyword of FragTwo comes before that of FragOne.
FragOne == <<"Next term starts in ", "May">>
FragTwo == <<"Registration opens", " in ", "September">>

Fragments == {FragOne, FragTwo}

\* A sentence with no keyword of the keyword list.
FragNone == <<"Classes are free">>

\* Anchors a page may show.
Anchors ==
    { [text |-> "Register", href |-> "/esl/register"],
      [text |-> "Enroll Now", href |-> "/esl/register"],
      [text |-> "Sign Up", href |-> "https://forms.example/new"] }

\* More anchors, for the extractor alone: one that is no registration link,
\* one whose href has another scheme than http, one whose relative href
\* begins with the letters http.
OtherAnchors ==
    { [text |-> "Click here", href |-> "/about"],
      [text |-> "Register by email", href |-> "mailto:esl@example.org"],
      [text |-> "Apply", href |-> "http-signup.html"] }

\* str.lower() on the chunks and strings of the universe.
Lower(s) ==
    CASE s = "Next term starts in " -> "next term starts in "
      [] s = "May" -> "may"
      [] s = "Registration opens" -> "registration opens"
      [] s = "September" -> "september"
      [] s = "Register" -> "register"
      [] s = "Enroll Now" -> "enroll now"
      [] s = "Sign Up" -> "sign up"
      [] s = "Classes are free" -> "classes are free"
      [] s = "Click here" -> "click here"
      [] s = "Register by email" -> "register by email"
      [] s = "Apply" -> "apply"
      [] OTHER -> s

\* kw in s, for a lower-cased chunk or string s of the universe.
Contains(s, kw) ==
    \/ s = kw
    \/ <<kw, s>> \in { <<"register", "/esl/register">>,
                       <<"enroll", "enroll now">>,
                       <<"register", "register by email">>,
                       <<"signup", "http-signup.html">> }

\* s.startswith('http')
StartsWithHttp(s) == s \in {"https://forms.example/new", "http-signup.html"}

RECURSIVE SeqsUpTo(_, _)
\* All sequences over S of length at most n.
SeqsUpTo(S, n) ==
    IF n = 0 THEN {<<>>}
    ELSE LET shorter == SeqsUpTo(S, n - 1)
         IN shorter \cup {Append(q, x) : q \in shorter, x \in S}

RECURSIVE JoinSentences(_)
\* The text of a region whose sentences are fs: each ends with a period, and
\* a blank separates it from the next.
JoinSentences(fs) ==
    IF fs = <<>> THEN <<>>
    ELSE fs[1] \o <<".">> \o
         (IF Len(fs) = 1 THEN <<>> ELSE <<" ">> \o JoinSentences(Tail(fs)))

\* The content region of a fetched page (lines 53-55): its sentences, followed
\* by its anchors with href.
Markups ==
    { [t |-> "str", empty |-> FALSE, prose |-> JoinSentences(fs), anchors |-> as] :
        <<fs, as>> \in
          { p \in SeqsUpTo(Fragments, MaxItems) \X SeqsUpTo(Anchors, MaxItems) :
              Len(p[1]) + Len(p[2]) <= MaxItems } }

\* The pages given to the extractor alone.
Pages ==
    { [t |-> "str", empty |-> FALSE, prose |-> JoinSentences(fs), anchors |-> as] :
        <<fs, as>> \in
          { p \in SeqsUpTo(Fragments \cup {FragNone}, MaxExtract)
                    \X SeqsUpTo(Anchors \cup OtherAnchors, MaxExtract) :
              Len(p[1]) + Len(p[2]) <= MaxExtract } }

\* An HTTP 200 with an empty body.
EmptyBody == [t |-> "str", empty |-> TRUE, prose |-> <<>>, anchors |-> <<>>]

\* ---------------------------------------------------------------- extractor

keywords ==
    << "registration opens", "the next registration will be",
       "registration will be on", "register online",
       "january", "february", "march", "april", "may", "june", "july",
       "august", "september", "october", "november", "december" >>

registration_keywords == <<"register", "registration", "sign up", "signup", "enroll">>

RECURSIVE LowerText(_)
LowerText(text) ==
    IF text = <<>> THEN <<>> ELSE <<Lower(text[1])>> \o LowerText(Tail(text))

\* keyword in text, for a lower-cased text
KeywordIn(keyword, text) == \E i \in 1..Len(text) : Contains(text[i], keyword)

RECURSIVE Split(_, _)
\* text.split('.'), acc being the fragment under construction
Split(text, acc) ==
    IF text = <<>> THEN <<acc>>
    ELSE IF text[1] = "." THEN <<acc>> \o Split(Tail(text), <<>>)
    ELSE Split(Tail(text), Append(acc, text[1]))

RECURSIVE LStrip(_)
LStrip(s) == IF s # <<>> /\ s[1] = " " THEN LStrip(Tail(s)) ELSE s

RECURSIVE RStrip(_)
RStrip(s) ==
    IF s # <<>> /\ s[Len(s)] = " " THEN RStrip(SubSeq(s, 1, Len(s) - 1)) ELSE s

\* sentence.strip()
Strip(s) == RStrip(LStrip(s))

RECURSIVE AnchorTexts(_)
AnchorTexts(anchors) ==
    IF anchors = <<>> THEN <<>>
    ELSE <<" ", anchors[1].text>> \o AnchorTexts(Tail(anchors))

\* line 84: the strings of the region, the texts of its anchors among them,
\* joined by blanks
GetText(html) == Strip(html.prose \o AnchorTexts(html.anchors))

RECURSIVE MatchingSentences(_, _)
\* lines 92-94: the stripped sentences that contain the keyword
MatchingSentences(keyword, sentences) ==
    IF sentences = <<>> THEN <<>>
    ELSE (IF KeywordIn(keyword, LowerText(sentences[1]))
          THEN <<Strip(sentences[1])>> ELSE <<>>)
         \o MatchingSentences(keyword, Tail(sentences))

\* A loop that takes each matching sentence once.
RegistrationTextOnce(kws, text_content) ==
    LET stripped == [i \in 1..Len(Split(text_content, <<>>)) |->
                        Strip(Split(text_content, <<>>)[i])]
    IN SelectSeq(stripped,
                 LAMBDA e : \E i \in 1..Len(kws) : KeywordIn(kws[i], LowerText(e)))

RECURSIVE RegistrationText(_, _)
\* lines 88-94: the loop over the keyword list
RegistrationText(kws, text_content) ==
    IF kws = <<>> THEN <<>>
    ELSE (IF KeywordIn(kws[1], LowerText(text_content))
          THEN MatchingSentences(kws[1], Split(text_content, <<>>))
          ELSE <<>>)
         \o RegistrationText(Tail(kws), text_content)

\* line 104
IsRegistrationLink(link_text, href) ==
    \E i \in 1..Len(registration_keywords) :
        \/ Contains(Lower(link_text), registration_keywords[i])
        \/ Contains(Lower(href), registration_keywords[i])

\* line 107: a url is the sequence of the strings concatenated
AbsoluteUrl(href) == IF StartsWithHttp(href) THEN <<href>> ELSE <<Origin, href>>

RECURSIVE Links(_)
\* lines 97-108
Links(anchors) ==
    IF anchors = <<>> THEN <<>>
    ELSE (IF IsRegistrationLink(anchors[1].text, anchors[1].href)
          THEN <<[text |-> anchors[1].text, url |-> AbsoluteUrl(anchors[1].href)]>>
          ELSE <<>>)
         \o Links(Tail(anchors))

extract_page_info(html) ==
    [ registration_text |-> RegistrationText(keywords, GetText(html)),
      links |-> Links(html.anchors),
      full_text |-> LowerText(GetText(html)) ]

\* --------------------------------------------------------------- state file

\* page_state.json: missing, not parseable (garbage, or the truncated file a
\* write that failed half way leaves), or a JSON text.
FileAbsent == [kind |-> "absent"]
FileGarbage == [kind |-> "garbage"]
JsonFile(j) == [kind |-> "json", json |-> j]

JsonNull == [j |-> "null"]
JsonArray == [j |-> "array"]
JsonObject(members) == [j |-> "object", members |-> members]

\* A dict with no key.
EmptyDict == [k \in {} |-> <<>>]

\* A dump that leaves the sentences out.
DumpLinks(state) == JsonFile(JsonObject([links |-> state.links]))

\* json.dump(state, f, indent=2), line 128
Dump(state) == JsonFile(JsonObject(state))

\* json.load(f), line 118, of a parseable file
Parse(j) ==
    CASE j.j = "null" -> None
      [] j.j = "array" -> [t |-> "list"]
      [] j.j = "object" -> [t |-> "dict", d |-> j.members]

\* A load that never finds a stored state.
load_nothing(f) == None

\* lines 113-121: a missing file and a parse error both give None
load_previous_state(f) == IF f.kind = "json" THEN Parse(f.json) ELSE None

\* What a save leaves on disk.  "ok": the file holds the dump.  "open_error":
\* open() raised, the file is untouched.  "write_error": the file was
\* truncated by open(.., 'w') and the dump raised before it was complete.
SaveOutcomes == {"ok", "open_error", "write_error"}

\* A save that reports success and writes nothing.
save_nothing(f, state, outcome) == f

\* lines 124-130
save_current_state(f, state, outcome) ==
    CASE outcome = "ok" -> Dump(state)
      [] outcome = "open_error" -> f
      [] outcome = "write_error" -> FileGarbage

\* What the first run may find at STATE_FILE: nothing, or a file this program
\* did not write (not parseable, or JSON that is no snapshot record).
InitialFiles == {FileAbsent, FileGarbage, JsonFile(JsonNull), JsonFile(JsonArray),
                 JsonFile(JsonObject(EmptyDict))}

\* ------------------------------------------------------------------ notifier

StartedSubject == <<"ESL Monitor Started">>
AlertSubject(changes) == <<"ESL ALERT", changes>>

\* lines 147-149 and 161-163: the SMTP sessions a call opens, in order
Sessions(cfg, subject, primary, secondary) ==
    <<[to |-> "RECIPIENT_EMAIL", subject |-> subject, delivered |-> primary]>>
    \o (IF primary /\ cfg.SMS_EMAIL
        THEN <<[to |-> "SMS_EMAIL", subject |-> subject, delivered |-> secondary]>>
        ELSE <<>>)

\* A send_email whose SMS failure reaches the outer handler.
send_email_strict(cfg, subject, body, primary, secondary) ==
    [ subject |-> subject,
      body |-> body,
      primary |-> IF primary THEN "sent" ELSE "failed",
      sms |-> IF primary /\ cfg.SMS_EMAIL
              THEN (IF secondary THEN "sent" ELSE "failed")
              ELSE "none",
      sessions |-> Sessions(cfg, subject, primary, secondary),
      result |-> primary /\ (cfg.SMS_EMAIL => secondary) ]

\* lines 133-171.  primary: the SMTP session to RECIPIENT_EMAIL succeeded;
\* secondary: the one to SMS_EMAIL succeeded.  The record is the call: what
\* was asked, what was delivered, and the value returned.
send_email(cfg, subject, body, primary, secondary) ==
    [ subject |-> subject,
      body |-> body,
      primary |-> IF primary THEN "sent" ELSE "failed",
      sms |-> IF primary /\ cfg.SMS_EMAIL
              THEN (IF secondary THEN "sent" ELSE "failed")
              ELSE "none",
      sessions |-> Sessions(cfg, subject, primary, secondary),
      result |-> primary ]

\* ------------------------------------------------------------------ detector

\* A lookup that always takes the default.
GetDefault(d, key, default) == default

\* previous_state.get(key, default), for a dict
Get(d, key, default) == IF key \in DOMAIN d THEN d[key] ELSE default

InSeq(e, q) == \E i \in 1..Len(q) : q[i] = e

\* A comparison that reports every current entry once one of them is new.
NewRegistrationTextAll(texts, previous) ==
    IF \E i \in 1..Len(texts) : ~InSeq(texts[i], previous) THEN texts ELSE <<>>

\* A comparison that also reports the entries that went away.
NewRegistrationTextDiff(texts, previous) ==
    SelectSeq(texts, LAMBDA e : ~InSeq(e, previous))
    \o SelectSeq(previous, LAMBDA e : ~InSeq(e, texts))

RECURSIVE NewRegistrationText(_, _)
\* lines 213-214
NewRegistrationText(texts, previous) ==
    IF texts = <<>> THEN <<>>
    ELSE (IF InSeq(texts[1], previous) THEN <<>> ELSE <<texts[1]>>)
         \o NewRegistrationText(Tail(texts), previous)

\* A comparison of links by text and url instead of by url alone.
LinkSet(links) == {<<links[i].text>> \o links[i].url : i \in 1..Len(links)}

\* lines 221-222
UrlSet(links) == {links[i].url : i \in 1..Len(links)}

\* lines 221-223
NewLinks(current, previous) == UrlSet(current) \ UrlSet(previous)

RECURSIVE NewLinkObjects(_, _)
\* line 244
NewLinkObjects(links, new) ==
    IF links = <<>> THEN <<>>
    ELSE (IF links[1].url \in new THEN <<links[1]>> ELSE <<>>)
         \o NewLinkObjects(Tail(links), new)

\* A list of changes that names one kind at most.
ChangesDetectedFirst(new_text, new) ==
    IF new_text # <<>> THEN <<"REGISTRATION ANNOUNCEMENT">>
    ELSE IF new # {} THEN <<"NEW REGISTRATION LINK">>
    ELSE <<>>

\* lines 210-227
ChangesDetected(new_text, new) ==
    (IF new_text # <<>> THEN <<"REGISTRATION ANNOUNCEMENT">> ELSE <<>>)
    \o (IF new # {} THEN <<"NEW REGISTRATION LINK">> ELSE <<>>)

\* lines 234-253: the sections of the alert (an empty one is left out)
AlertBody(info, new_text, new) ==
    [ announcements |-> new_text,
      links |-> NewLinkObjects(info.links, new) ]

\* lines 202-205
StartedBody(info) == [link_count |-> Len(info.links)]

\* The items a snapshot shows: its registration sentences and its link urls.
ItemsOf(info) ==
    {[k |-> "text", v |-> info.registration_text[i]] :
        i \in 1..Len(info.registration_text)}
    \cup {[k |-> "url", v |-> u] : u \in UrlSet(info.links)}

\* --------------------------------------------------------------------- state

VARIABLES
    config,                 \* which of the four environment variables are set and non-empty
    file,                   \* page_state.json
    pc,                     \* position of the run in check_for_changes, "idle" between runs
    path,                   \* the branch the run took
    html_content,           \* line 185
    current_info,           \* line 191
    previous_state,         \* line 194
    new_registration_text,  \* line 213
    new_links,              \* line 223
    changes_detected,       \* line 210
    calls,                  \* the send_email calls of the run, in order
    fetches,                \* requests.get calls of the run
    reads,                  \* load_previous_state calls of the run
    writes,                 \* save_current_state calls of the run
    file0,                  \* history: the file when the run started
    same_page,              \* prophecy: the page the next run will fetch, when it is the one
                            \* this run fetched; None when nothing is foretold
    repeat,                 \* history: the run fetched what the run before it had fetched
    write_failed,           \* history: a save of the latest run raised
    prev_write_failed,      \* history: a save of the run before it raised (kept for a
                            \* run that fetches the same page)
    undelivered,            \* history: items detected as new, still shown, alert never delivered
    watch,                  \* which of the histories below, or undelivered, is kept
    started,                \* history: "yes" once a run took the first-run path,
                            \* "yes_failed" when a state write failed in or after it
    alerted,                \* history: items of the alerts whose run saved the state,
                            \* shown by every snapshot since, no state write having failed since
    prev_alert              \* history: the alert the run before sent, when its save raised
                            \* and this run is served the same page

locals == <<html_content, current_info, previous_state, new_registration_text,
            new_links, changes_detected>>
effects == <<calls, fetches, reads, writes>>
monitors == <<watch, started, alerted, prev_alert>>
history == <<file0, same_page, repeat, write_failed, prev_write_failed, undelivered, monitors>>
vars == <<config, file, pc, path, locals, effects, history>>

Configs ==
    [GMAIL_USER : BOOLEAN, GMAIL_APP_PASSWORD : BOOLEAN, RECIPIENT_EMAIL : BOOLEAN,
     SMS_EMAIL : BOOLEAN]

\* A check that forgets the recipient.
ConfigMissingNoRecipient(cfg) == ~cfg.GMAIL_USER \/ ~cfg.GMAIL_APP_PASSWORD

\* line 180
ConfigMissing(cfg) ==
    ~cfg.GMAIL_USER \/ ~cfg.GMAIL_APP_PASSWORD \/ ~cfg.RECIPIENT_EMAIL

Installed(w) ==
    /\ watch = w
    /\ started = "no"
    /\ alerted = {}
    /\ prev_alert = None
    /\ config \in Configs
    /\ file \in InitialFiles
    /\ pc = "idle"
    /\ path = "none"
    /\ html_content = None
    /\ current_info = None
    /\ previous_state = None
    /\ new_registration_text = <<>>
    /\ new_links = {}
    /\ changes_detected = <<>>
    /\ calls = <<>>
    /\ fetches = 0
    /\ reads = 0
    /\ writes = 0
    /\ file0 = file
    /\ same_page = None
    /\ repeat = FALSE
    /\ write_failed = FALSE
    /\ prev_write_failed = FALSE
    /\ undelivered = {}

Init == Installed("undelivered")

\* The scheduler starts a run: a fresh process.
StartRun ==
    /\ pc = "idle"
    /\ pc' = "verify"
    /\ path' = "none"
    /\ file0' = file
    /\ repeat' = FALSE
    /\ prev_write_failed' = (same_page # None /\ write_failed)
    /\ write_failed' = FALSE
    /\ UNCHANGED <<config, file, locals, effects, same_page, undelivered, monitors>>

\* lines 179-182
VerifyConfig ==
    /\ pc = "verify"
    /\ IF ConfigMissing(config)
       THEN pc' = "done" /\ path' = "config"
       ELSE pc' = "fetch" /\ path' = path
    /\ UNCHANGED <<config, file, locals, effects, history>>

\* A fetch that is tried a second time when it fails.
FetchFailsRetry(result) ==
    /\ pc = "fetch"
    /\ result \in {None, EmptyBody}
    /\ same_page = None
    /\ html_content' = result
    /\ fetches' = fetches + 1
    /\ IF fetches = 0
       THEN pc' = "fetch" /\ path' = path
       ELSE pc' = "done" /\ path' = "fetch"
    /\ UNCHANGED <<config, file, current_info, previous_state, new_registration_text,
                   new_links, changes_detected, calls, reads, writes, history>>

\* lines 185-188 with 34-45: the request raises (network error, timeout, HTTP
\* error status), or returns an empty body, which line 186 treats alike
FetchFails(result) ==
    /\ pc = "fetch"
    /\ result \in {None, EmptyBody}
    /\ same_page = None
    /\ html_content' = result
    /\ fetches' = fetches + 1
    /\ pc' = "done"
    /\ path' = "fetch"
    /\ UNCHANGED <<config, file, current_info, previous_state, new_registration_text,
                   new_links, changes_detected, calls, reads, writes, history>>

\* lines 185-186: the request returns the page
FetchPage(result) ==
    /\ pc = "fetch"
    /\ result \in Markups
    /\ same_page \in {None, result}
    /\ html_content' = result
    /\ fetches' = fetches + 1
    /\ repeat' = (same_page = result)
    /\ same_page' = None
    /\ pc' = "extract"
    /\ UNCHANGED <<config, file, path, current_info, previous_state,
                   new_registration_text, new_links, changes_detected, calls, reads,
                   writes, file0, write_failed, prev_write_failed, undelivered, monitors>>

\* line 191
Extract ==
    /\ pc = "extract"
    /\ current_info' = extract_page_info(html_content)
    /\ undelivered' = IF watch = "undelivered"
                      THEN undelivered \cap ItemsOf(current_info')
                      ELSE undelivered
    /\ alerted' = alerted \cap ItemsOf(current_info')
    /\ pc' = "load"
    /\ UNCHANGED <<config, file, path, html_content, previous_state,
                   new_registration_text, new_links, changes_detected, effects, file0,
                   same_page, repeat, write_failed, prev_write_failed, watch, started,
                   prev_alert>>

\* lines 194-196
Load ==
    /\ pc = "load"
    /\ previous_state' = load_previous_state(file)
    /\ reads' = reads + 1
    /\ IF previous_state' = None
       THEN pc' = "first_save" /\ path' = "first"
       ELSE pc' = "detect" /\ path' = path
    /\ UNCHANGED <<config, file, html_content, current_info, new_registration_text,
                   new_links, changes_detected, calls, fetches, writes, history>>

\* line 199
FirstRunSave(outcome) ==
    /\ pc = "first_save"
    /\ outcome \in SaveOutcomes
    /\ file' = save_current_state(file, current_info, outcome)
    /\ writes' = writes + 1
    /\ write_failed' = (outcome # "ok")
    /\ started' = IF started = "yes" /\ outcome # "ok" THEN "yes_failed" ELSE started
    /\ alerted' = IF outcome = "ok" THEN alerted ELSE {}
    /\ pc' = "first_notify"
    /\ UNCHANGED <<config, path, locals, calls, fetches, reads, file0, same_page,
                   repeat, prev_write_failed, undelivered, watch, prev_alert>>

\* lines 200-207
FirstRunNotify(primary, secondary) ==
    /\ pc = "first_notify"
    /\ primary \in BOOLEAN
    /\ secondary \in BOOLEAN
    /\ calls' = Append(calls, send_email(config, StartedSubject,
                                         StartedBody(current_info), primary, secondary))
    /\ started' = IF watch = "started" /\ started = "no"
                  THEN (IF write_failed THEN "yes_failed" ELSE "yes")
                  ELSE started
    /\ pc' = "done"
    /\ UNCHANGED <<config, file, path, locals, fetches, reads, writes, file0, same_page,
                   repeat, write_failed, prev_write_failed, undelivered, watch, alerted,
                   prev_alert>>

\* lines 209-227 for a previous state that is a dict
Detect ==
    /\ pc = "detect"
    /\ previous_state.t = "dict"
    /\ new_registration_text' =
          NewRegistrationText(current_info.registration_text,
                              Get(previous_state.d, "registration_text", <<>>))
    /\ new_links' = NewLinks(current_info.links, Get(previous_state.d, "links", <<>>))
    /\ changes_detected' = ChangesDetected(new_registration_text', new_links')
    /\ pc' = "decide"
    /\ UNCHANGED <<config, file, path, html_content, current_info, previous_state,
                   effects, history>>

\* lines 214 and 221 for a previous state that is not a dict: it has no get,
\* the AttributeError is caught nowhere and ends the process
DetectRaises ==
    /\ pc = "detect"
    /\ previous_state.t # "dict"
    /\ pc' = "crashed"
    /\ path' = "crash"
    /\ UNCHANGED <<config, file, locals, effects, history>>

\* lines 230 and 260-263
Decide ==
    /\ pc = "decide"
    /\ IF changes_detected # <<>>
       THEN pc' = "notify" /\ path' = "change"
       ELSE pc' = "done" /\ path' = "nochange"
    /\ UNCHANGED <<config, file, locals, effects, history>>

AlertItems(new_text, new) ==
    {[k |-> "text", v |-> new_text[i]] : i \in 1..Len(new_text)}
    \cup {[k |-> "url", v |-> u] : u \in new}

\* lines 231-255: the value send_email returns is dropped
Notify(primary, secondary) ==
    /\ pc = "notify"
    /\ primary \in BOOLEAN
    /\ secondary \in BOOLEAN
    /\ calls' = Append(calls,
                       send_email(config, AlertSubject(changes_detected),
                                  AlertBody(current_info, new_registration_text, new_links),
                                  primary, secondary))
    /\ undelivered' =
          IF watch # "undelivered" THEN undelivered
          ELSE IF primary
          THEN undelivered \ AlertItems(new_registration_text, new_links)
          ELSE undelivered \cup AlertItems(new_registration_text, new_links)
    /\ pc' = "persist"
    /\ UNCHANGED <<config, file, path, locals, fetches, reads, writes, file0, same_page,
                   repeat, write_failed, prev_write_failed, monitors>>

\* lines 258-263
Persist(outcome) ==
    /\ pc = "persist"
    /\ outcome \in SaveOutcomes
    /\ file' = save_current_state(file, current_info, outcome)
    /\ writes' = writes + 1
    /\ write_failed' = (outcome # "ok")
    /\ started' = IF started = "yes" /\ outcome # "ok" THEN "yes_failed" ELSE started
    /\ alerted' = IF outcome # "ok" THEN {}
                  ELSE IF watch = "alerted"
                  THEN alerted \cup AlertItems(new_registration_text, new_links)
                  ELSE alerted
    /\ pc' = "done"
    /\ UNCHANGED <<config, path, locals, calls, fetches, reads, file0, same_page,
                   repeat, prev_write_failed, undelivered, watch, prev_alert>>

\* The process ends (normally, or with the traceback of DetectRaises); its
\* variables are gone.  again: the next run will be served the page this run
\* was served.
Exit(again) ==
    /\ pc \in {"done", "crashed"}
    /\ again \in BOOLEAN
    /\ again => html_content \in Markups
    /\ same_page' = IF again THEN html_content ELSE None
    /\ pc' = "idle"
    /\ html_content' = None
    /\ current_info' = None
    /\ previous_state' = None
    /\ new_registration_text' = <<>>
    /\ new_links' = {}
    /\ changes_detected' = <<>>
    /\ calls' = <<>>
    /\ fetches' = 0
    /\ reads' = 0
    /\ writes' = 0
    /\ path' = "none"
    /\ file0' = file
    /\ repeat' = FALSE
    /\ write_failed' = (again /\ write_failed)
    /\ prev_write_failed' = FALSE
    /\ prev_alert' = IF /\ watch = "resent"
                        /\ again
                        /\ write_failed
                        /\ path = "change"
                        /\ calls[1].primary = "sent"
                     THEN [subject |-> calls[1].subject, body |-> calls[1].body]
                     ELSE None
    /\ UNCHANGED <<config, file, undelivered, watch, started, alerted>>

Next ==
    \/ StartRun
    \/ VerifyConfig
    \/ \E result \in {None, EmptyBody} : FetchFails(result)
    \/ \E result \in Markups : FetchPage(result)
    \/ Extract
    \/ Load
    \/ \E outcome \in SaveOutcomes : FirstRunSave(outcome)
    \/ \E primary, secondary \in BOOLEAN : FirstRunNotify(primary, secondary)
    \/ Detect
    \/ DetectRaises
    \/ Decide
    \/ \E primary, secondary \in BOOLEAN : Notify(primary, secondary)
    \/ \E outcome \in SaveOutcomes : Persist(outcome)
    \/ \E again \in BOOLEAN : Exit(again)

Spec == Init /\ [][Next]_vars

\* extract_page_info alone, on a page of a larger universe.
InitExtract ==
    /\ Installed("extract")
    /\ ~ConfigMissing(config)
    /\ file = FileAbsent

ExtractPage ==
    /\ pc = "idle"
    /\ \E page \in Pages : html_content' = page
    /\ fetches' = 1
    /\ pc' = "extract"
    /\ UNCHANGED <<config, file, path, current_info, previous_state,
                   new_registration_text, new_links, changes_detected, calls, reads,
                   writes, history>>

NextExtract == ExtractPage \/ Extract

SpecExtract == InitExtract /\ [][NextExtract]_vars

\* The same program, with the history of the first runs kept.
InitStarted == Installed("started")
SpecStarted == InitStarted /\ [][Next]_vars

\* The same program, with the alert of a run whose save raised kept.
InitResent == Installed("resent")
SpecResent == InitResent /\ [][Next]_vars

\* The same program, with the history of the alerted items kept.
InitAlerted == Installed("alerted")
SpecAlerted == InitAlerted /\ [][Next]_vars

\* -------------------------------------------------------------------- claims

Range(q) == {q[i] : i \in 1..Len(q)}

\* The run went through the change detector.
Detected == pc \in {"decide", "notify", "persist"} \/ path \in {"change", "nochange"}

\* The run sent its change alert.
AlertCalled == path = "change" /\ pc \in {"persist", "done"}

PreviousTexts == Get(previous_state.d, "registration_text", <<>>)
PreviousUrls == {l.url : l \in Range(Get(previous_state.d, "links", <<>>))}
CurrentUrls == {l.url : l \in Range(current_info.links)}

\* C1: on the change path, when the primary delivery failed, the stored
\* state after the run is the stored state before the run.
C1_FailedNotificationBlocksPersistence ==
    (pc = "done" /\ path = "change" /\ calls[1].primary = "failed") => file = file0

\* C2: an item whose alert could not be delivered, and that the page still
\* shows, is raised again by every run that compares the page with the
\* stored state, until its alert is delivered: it is never taken into the
\* stored state without an alert.
C2_AtLeastOnceDelivery ==
    pc = "decide" => undelivered \subseteq AlertItems(new_registration_text, new_links)

\* C3 as stated: a run that fetched the markup the run before it had fetched
\* detects nothing, sends nothing and does not write the state.
C3_Original == repeat => (changes_detected = <<>> /\ calls = <<>> /\ writes = 0)

\* C3: a run that fetched the markup the run before it had fetched, no state
\* write of that run having failed, detects nothing, sends nothing and does
\* not write the state.
C3_NoOpRunIdempotent ==
    (repeat /\ ~prev_write_failed)
        => (changes_detected = <<>> /\ calls = <<>> /\ writes = 0 /\ file = file0)

C3_Witness ==
    /\ repeat
    /\ ~prev_write_failed
    /\ pc = "done"
    /\ path = "nochange"
    /\ current_info.registration_text # <<>>
    /\ current_info.links # <<>>

FirstRunNotified ==
    /\ Len(calls) = 1
    /\ calls[1].subject = StartedSubject
    /\ changes_detected = <<>>
    /\ new_registration_text = <<>>
    /\ new_links = {}

\* C4 as stated: a first run sends exactly one "monitoring started"
\* notification, no change alert, and leaves the extracted snapshot stored.
C4_Original ==
    (pc = "done" /\ path = "first")
        => (FirstRunNotified /\ load_previous_state(file) = [t |-> "dict", d |-> current_info])

\* C4: a first run sends exactly one "monitoring started" notification and no
\* change alert; it leaves the extracted snapshot stored when the write
\* succeeds, and the file as it was or truncated when the write fails.
C4_FirstRun ==
    (pc = "done" /\ path = "first")
        => /\ FirstRunNotified
           /\ ~write_failed => load_previous_state(file) = [t |-> "dict", d |-> current_info]
           /\ write_failed => file \in {file0, FileGarbage}

C4_Witness ==
    /\ pc = "done"
    /\ path = "first"
    /\ ~write_failed
    /\ current_info.registration_text # <<>>
    /\ current_info.links # <<>>

\* The sentences of the fetched page, in document order.
DocSentences ==
    LET parts == Split(GetText(html_content), <<>>)
    IN [i \in 1..Len(parts) |-> Strip(parts[i])]

DocPos(e) ==
    CHOOSE i \in 1..Len(DocSentences) :
        DocSentences[i] = e /\ \A j \in 1..(i - 1) : DocSentences[j] # e

InDocumentOrder(q) ==
    \A i, j \in 1..Len(q) : i < j => DocPos(q[i]) <= DocPos(q[j])

IsNewText(e) == \A i \in 1..Len(PreviousTexts) : PreviousTexts[i] # e

\* The RegistrationAnnouncement signal fires iff an entry of the current
\* registration_text is not in the previous one, and its payload is those
\* entries, in the order they have in the current registration_text.
AnnouncementDetection ==
    LET expected == SelectSeq(current_info.registration_text, IsNewText)
    IN /\ ("REGISTRATION ANNOUNCEMENT" \in Range(changes_detected))
            <=> (\E e \in Range(current_info.registration_text) :
                    e \notin Range(PreviousTexts))
       /\ new_registration_text = expected
       /\ AlertCalled => calls[1].body.announcements = expected

\* C5 as stated: the signal fires iff an entry is new, and the payload is the
\* new entries in document order.
C5_Original ==
    Detected => (AnnouncementDetection /\ InDocumentOrder(new_registration_text))

\* C5: the signal fires iff an entry is new, and the payload is the new
\* entries in the order of current.registration_text (keyword by keyword).
C5_RegistrationAnnouncement == Detected => AnnouncementDetection

C5_Witness ==
    /\ AlertCalled
    /\ new_registration_text # <<>>
    /\ new_registration_text # current_info.registration_text
    /\ ~InDocumentOrder(current_info.registration_text)

IsNewLink(l) == l.url \in CurrentUrls \ PreviousUrls

\* C6: the NewLink signal fires iff a current url is not a previous url; its
\* payload is every current link with such a url; a link whose url is stored
\* is not in it, whatever its text.
C6_NewLink ==
    Detected =>
        /\ ("NEW REGISTRATION LINK" \in Range(changes_detected))
             <=> ~(CurrentUrls \subseteq PreviousUrls)
        /\ new_links = CurrentUrls \ PreviousUrls
        /\ AlertCalled =>
             /\ calls[1].body.links = SelectSeq(current_info.links, IsNewLink)
             /\ \A l \in Range(calls[1].body.links) : l.url \notin PreviousUrls

\* A stored link came back under another text, beside a link that is new.
C6_Witness ==
    /\ AlertCalled
    /\ new_links # {}
    /\ \E l \in Range(current_info.links) :
          /\ l.url \in PreviousUrls
          /\ l \notin Range(Get(previous_state.d, "links", <<>>))

\* C7: with the sender, the credential or the recipient missing, the run
\* fetches nothing, sends nothing and neither reads nor writes the state.
C7_MissingConfiguration ==
    (~config.GMAIL_USER \/ ~config.GMAIL_APP_PASSWORD \/ ~config.RECIPIENT_EMAIL)
        => /\ fetches = 0
           /\ calls = <<>>
           /\ reads = 0
           /\ writes = 0
           /\ file = file0
           /\ pc \in {"idle", "verify", "done"}

C7_Witness ==
    /\ pc = "done"
    /\ path = "config"
    /\ ~config.RECIPIENT_EMAIL
    /\ config.GMAIL_USER
    /\ config.GMAIL_APP_PASSWORD

\* C8: when the fetch fails the run ends with the state as it was, nothing
\* sent, and one fetch made.
C8_FetchFailure ==
    (fetches > 0 /\ html_content = None)
        => /\ pc = "done"
           /\ fetches = 1
           /\ file = file0
           /\ calls = <<>>
           /\ reads = 0
           /\ writes = 0

C8_Witness ==
    /\ pc = "done"
    /\ html_content = None
    /\ fetches = 1
    /\ file.kind = "json"

\* C9: a run leaves the stored state as it was, or as the snapshot of a first
\* run, or as the snapshot of a run whose change alert was delivered on the
\* primary channel.
C9_StoredStateInvariant ==
    (pc = "done" /\ file.kind = "json" /\ file # file0)
        => \/ path = "first"
           \/ path = "change" /\ calls[1].primary = "sent"

\* C10: a stored record that does not parse, or parses to something else
\* than a record, loads as absent; the run takes the first-run path and
\* does not crash.
C10_CorruptStateIsAbsent ==
    (/\ pc \in {"done", "crashed"}
     /\ reads > 0
     /\ file0.kind = "garbage" \/ (file0.kind = "json" /\ file0.json.j # "object"))
        => /\ previous_state = None
           /\ path = "first"
           /\ pc = "done"

\* C11: every run ends at the end of check_for_changes; none ends with an
\* exception.
C11_RunTerminatesNormally == pc # "crashed"

IsAlert(call) == call.subject[1] = "ESL ALERT"

\* C12: a run sends at most one change alert; when a signal fired it sends
\* exactly one, whose subject names every kind that fired, a kind having
\* fired when its section of the body is not empty.
C12_OneMergedAlert ==
    /\ Len(calls) <= 1
    /\ \A i \in 1..Len(calls) : IsAlert(calls[i]) => path = "change"
    /\ (Detected /\ pc \in {"persist", "done"}
          /\ (new_registration_text # <<>> \/ new_links # {}))
         => /\ Len(calls) = 1
            /\ IsAlert(calls[1])
            /\ calls[1].sessions[1].to = "RECIPIENT_EMAIL"
            /\ ("REGISTRATION ANNOUNCEMENT" \in Range(calls[1].subject[2]))
                 <=> calls[1].body.announcements # <<>>
            /\ ("NEW REGISTRATION LINK" \in Range(calls[1].subject[2]))
                 <=> calls[1].body.links # <<>>

\* Both kinds fired in one run.
C12_Witness ==
    /\ pc = "done"
    /\ path = "change"
    /\ Len(calls) = 1
    /\ calls[1].body.announcements # <<>>
    /\ calls[1].body.links # <<>>

\* C13: send_email returns whether the primary delivery succeeded, whatever
\* becomes of the SMS; a call opens at most one session to the SMS address,
\* with the subject of the call, and only after the primary delivery.
C13_SecondaryBestEffort ==
    \A i \in 1..Len(calls) :
        LET call == calls[i]
            sms == {k \in 1..Len(call.sessions) : call.sessions[k].to = "SMS_EMAIL"}
        IN /\ call.result <=> call.sessions[1].delivered
           /\ call.sessions[1].to = "RECIPIENT_EMAIL"
           /\ Cardinality(sms) <= 1
           /\ \A k \in sms : k = 2 /\ call.sessions[k].subject = call.subject
           /\ sms # {} => (config.SMS_EMAIL /\ call.sessions[1].delivered)

\* The primary delivery succeeded and the SMS failed.
C13_Witness ==
    /\ Len(calls) = 1
    /\ calls[1].result
    /\ Len(calls[1].sessions) = 2
    /\ ~calls[1].sessions[2].delivered

\* C14: a run that finds every current sentence and every current url in the
\* stored state detects nothing, sends nothing and does not write the state.
C14_NothingNew ==
    (/\ Detected
     /\ Range(current_info.registration_text) \subseteq Range(PreviousTexts)
     /\ CurrentUrls \subseteq PreviousUrls)
        => /\ changes_detected = <<>>
           /\ new_registration_text = <<>>
           /\ new_links = {}
           /\ calls = <<>>
           /\ writes = 0
           /\ file = file0
           /\ pc \in {"decide", "done"}

\* A stored sentence went away and a stored link changed its text.
C14_Witness ==
    /\ pc = "done"
    /\ path = "nochange"
    /\ Range(PreviousTexts) \ Range(current_info.registration_text) # {}
    /\ \E l \in Range(current_info.links) :
          /\ l.url \in PreviousUrls
          /\ l \notin Range(Get(previous_state.d, "links", <<>>))

FirstRunPath == pc \in {"first_save", "first_notify"}

\* C15 as stated: once a run has taken the first-run path and sent the
\* started notification, no later run takes that path.
C15_Original == FirstRunPath => started = "no"

\* C15: once a run has taken the first-run path and sent the started
\* notification, no later run takes that path, as long as no state write
\* has failed in that run or since.
C15_StartedOnce ==
    /\ FirstRunPath => started # "yes"
    /\ \A i \in 1..Len(calls) : calls[i].subject = StartedSubject => path = "first"

\* A run after the first run finds the stored state and goes on to detect.
C15_Witness == started = "yes" /\ pc = "detect" /\ previous_state.t = "dict"

\* C16: a change run whose state write raised leaves the file as it was, and
\* a run that then fetches the same page sends the alert that run sent.
C16_WriteFailureRedetects ==
    /\ (pc = "done" /\ path = "change" /\ write_failed) => file = file0
    /\ (prev_alert # None /\ repeat /\ pc = "done")
          => /\ path = "change"
             /\ Len(calls) = 1
             /\ calls[1].subject = prev_alert.subject
             /\ calls[1].body = prev_alert.body

\* C17: an item of an alert whose run saved the state is in no later alert
\* while every snapshot shows it and no state write fails.
C17_NoDuplicateAlert ==
    pc \in {"decide", "notify", "persist"}
        => alerted \cap AlertItems(new_registration_text, new_links) = {}

\* A later run alerts on a new item while the page still shows an item
\* already alerted.
C17_Witness == pc = "persist" /\ alerted # {} /\ calls # <<>>

\* The period-delimited fragments of the text of the page.
Sentences == Split(GetText(html_content), <<>>)

\* The keywords (their indexes in the list) the lower-cased fragment holds.
KeywordsOf(f) == {i \in 1..Len(keywords) : KeywordIn(keywords[i], LowerText(f))}

RECURSIVE Occurrences(_, _)
\* How often v is due among the first j fragments: once for each keyword of
\* each fragment that is v.
Occurrences(v, j) ==
    IF j = 0 THEN 0
    ELSE Occurrences(v, j - 1)
         + (IF Strip(Sentences[j]) = v THEN Cardinality(KeywordsOf(Sentences[j])) ELSE 0)

RECURSIVE SentencesWith(_, _)
\* The fragments from the j-th on that hold keyword i, in document order.
SentencesWith(i, j) ==
    IF j > Len(Sentences) THEN <<>>
    ELSE (IF i \in KeywordsOf(Sentences[j]) THEN <<Strip(Sentences[j])>> ELSE <<>>)
         \o SentencesWith(i, j + 1)

RECURSIVE GroupedByKeyword(_)
\* The groups of the keywords from the i-th on, in keyword-list order.
GroupedByKeyword(i) ==
    IF i > Len(keywords) THEN <<>>
    ELSE SentencesWith(i, 1) \o GroupedByKeyword(i + 1)

Extracted == watch = "extract" /\ pc = "load"

\* C18: registration_text holds a fragment once for each keyword the
\* fragment contains, grouped by keyword in keyword-list order and in
\* document order within a keyword; a fragment with no keyword is not in it.
C18_DuplicatesPreserved ==
    Extracted =>
        LET text == current_info.registration_text
        IN /\ \A j \in 1..Len(Sentences) :
                 Cardinality({n \in 1..Len(text) : text[n] = Strip(Sentences[j])})
                    = Occurrences(Strip(Sentences[j]), Len(Sentences))
           /\ \A n \in 1..Len(text) :
                 \E j \in 1..Len(Sentences) :
                    text[n] = Strip(Sentences[j]) /\ KeywordsOf(Sentences[j]) # {}
           /\ text = GroupedByKeyword(1)

\* A page with a sentence of two keywords, shown twice, and a sentence of none.
C18_Witness ==
    /\ Extracted
    /\ \E j, k \in 1..Len(Sentences) :
          /\ j # k
          /\ Sentences[j] = Sentences[k]
          /\ Cardinality(KeywordsOf(Sentences[j])) = 2
    /\ \E j \in 1..Len(Sentences) : Strip(Sentences[j]) = FragNone

\* An href with a scheme is an absolute url.
IsAbsolute(href) == href \in {"https://forms.example/new", "mailto:esl@example.org"}

\* The link text or the href holds a registration word.
Wanted(a) ==
    \E w \in {"register", "registration", "sign up", "signup", "enroll"} :
        Contains(Lower(a.text), w) \/ Contains(Lower(a.href), w)

\* C19: links holds, in document order, the anchors whose text or href holds
\* a registration word, each with its href when that is absolute and with
\* the origin followed by the href when it is not.
C19_LinksFilteredAbsolute ==
    Extracted =>
        LET wanted == SelectSeq(html_content.anchors, Wanted)
            links == current_info.links
        IN /\ Len(links) = Len(wanted)
           /\ \A n \in 1..Len(links) :
                 /\ links[n].text = wanted[n].text
                 /\ links[n].url = IF IsAbsolute(wanted[n].href)
                                   THEN <<wanted[n].href>>
                                   ELSE <<Origin, wanted[n].href>>

====
